---- MODULE Spec2Model ----
(***************************************************************************)
(* HR resume screening and interview scheduling: the candidate pipeline    *)
(* (analyze -> route -> coordinate accept|reject -> finalize), the slot    *)
(* allocator and the JSON booking store, modelled from the Python source.  *)
(*                                                                         *)
(* Calendar dates are day offsets from "now" (day 0); the weekday of day 0 *)
(* is the variable now_weekday (0 = Monday .. 6 = Sunday, as Python's      *)
(* datetime.weekday()).  A time string "H:MM AM|PM" is the record          *)
(* [hh, mm, pm] of its three fields.                                       *)
(***************************************************************************)
EXTENDS Integers, Sequences, FiniteSets, TLC

(* ------------------------------ bounds --------------------------------- *)
\* pipeline runs that may be in progress at the same time
NumRuns == 2
\* pipeline runs started in one behaviour
MaxRuns == 3
\* largest number of gaps a screening score lists
MaxGaps == 3

(* ------------------------- program constants --------------------------- *)
QUALIFIED_CANDIDATE_THRESHOLD == 70
STRONG_FIT_THRESHOLD == 75
MODERATE_FIT_THRESHOLD == 50
DEFAULT_INTERVIEW_DURATION == 60
\* models.ScreeningScore: score = Field(..., ge=0, le=100)
SCORE_MIN == 0
SCORE_MAX == 100
NUM_INTERVIEW_SLOTS == 3
MAX_RETRIES == 3
\* generate_interview_slots: start_date = now + timedelta(days=2)
START_DAYS_AHEAD == 2
\* generate_interview_slots: max_attempts = NUM_INTERVIEW_SLOTS * 15
ATTEMPTS_PER_SLOT == 15
\* should_require_human_review: the borderline band and the high-score bound
REVIEW_BAND_LOW == 65
REVIEW_BAND_HIGH == 75
REVIEW_HIGH_SCORE == 80
REVIEW_GAP_LIMIT == 2
\* is_within_business_hours: the two closed intervals, in hours
MORNING_START_HOUR == 10
MORNING_END_HOUR == 12
AFTERNOON_START_HOUR == 14
AFTERNOON_END_HOUR == 17

\* Python's None in a string-valued field; an optional record is << >> (None)
\* or a one-element sequence holding the record.
None == "None"
TIMEZONE == "IST"
UNKNOWN_CANDIDATE == "Unknown Candidate"

Runs == 1..NumRuns

(* --------------------------- time strings ------------------------------ *)
T(h, m, p) == [hh |-> h, mm |-> m, pm |-> p]

\* config.INTERVIEW_AVAILABILITY["preferred_times"]
PREFERRED_TIMES ==
    << T(10, 0, FALSE), T(11, 0, FALSE), T(12, 0, TRUE), T(2, 0, TRUE),
       T(3, 0, TRUE), T(4, 0, TRUE), T(5, 0, TRUE) >>

\* Preferred-times lists the allocator is run with: the configured one, one
\* mixing valid times with times outside business hours and one unparsable
\* entry ("13:30 PM"), and one with no valid time at all.
TimesLists ==
    { PREFERRED_TIMES,
      << T(9, 0, FALSE), T(12, 0, TRUE), T(1, 0, TRUE), T(13, 30, TRUE),
         T(5, 0, TRUE), T(5, 1, TRUE) >>,
      << T(9, 59, FALSE), T(12, 1, TRUE), T(12, 0, FALSE) >> }

\* datetime.strptime(time_str.strip(), "%I:%M %p"): hour and minute on the
\* 24-hour clock as a one-element sequence, or << >> when the string does not
\* parse and strptime raises (%I takes 1..12, %M takes 0..59).
ParseTime(t) ==
    IF t.hh \in 1..12 /\ t.mm \in 0..59
    THEN << [hour |-> (t.hh % 12) + (IF t.pm THEN 12 ELSE 0),
             minute |-> t.mm] >>
    ELSE << >>

MutAnyTime(t) == TRUE

MutHalfOpenHours(t) ==
    LET p == ParseTime(t) IN
    IF p = << >> THEN FALSE
    ELSE LET total_minutes == p[1].hour * 60 + p[1].minute
         IN  \/ MORNING_START_HOUR * 60 <= total_minutes
                /\ total_minutes < MORNING_END_HOUR * 60
             \/ AFTERNOON_START_HOUR * 60 <= total_minutes
                /\ total_minutes <= AFTERNOON_END_HOUR * 60

\* utils.is_within_business_hours
is_within_business_hours(t) ==
    LET p == ParseTime(t) IN
    IF p = << >> THEN FALSE
    ELSE LET total_minutes == p[1].hour * 60 + p[1].minute
             in_morning == MORNING_START_HOUR * 60 <= total_minutes
                           /\ total_minutes <= MORNING_END_HOUR * 60
             in_afternoon == AFTERNOON_START_HOUR * 60 <= total_minutes
                             /\ total_minutes <= AFTERNOON_END_HOUR * 60
         IN in_morning \/ in_afternoon

(* ------------------------------ dates ---------------------------------- *)
\* slot_date.weekday() of the day `d` days after now
Weekday(nowwd, d) == (nowwd + d) % 7

\* slot_date.strftime("%A, %B %d, %Y"): the weekday name and the calendar date
FormatDate(nowwd, d) == [weekday |-> Weekday(nowwd, d), day |-> d]

MutSkipWeekend(nowwd, d) == IF Weekday(nowwd, d) = 5 THEN d + 1 ELSE d

\* while slot_date.weekday() >= 5: slot_date += timedelta(days=1)
RECURSIVE SkipWeekend(_, _)
SkipWeekend(nowwd, d) ==
    IF Weekday(nowwd, d) >= 5 THEN SkipWeekend(nowwd, d + 1) ELSE d

MutIsHoliday(hol, d) == FALSE

\* utils.is_holiday: the date's "%Y-%m-%d" text is in COMPANY_HOLIDAYS
is_holiday(hol, d) == d \in hol

(* --------------------------- booking store ----------------------------- *)
MutIsSlotAvailable(bookings, date, time) == TRUE

\* utils.is_slot_available, on the list load_booked_slots returned
is_slot_available(bookings, date, time) ==
    \A i \in 1..Len(bookings) :
        ~(bookings[i].date = date /\ bookings[i].time = time)

\* utils.save_booking: the new_booking record
NewBooking(candidate_name, date, time, timezone, at) ==
    [candidate_name |-> candidate_name, date |-> date, time |-> time,
     timezone |-> timezone, booked_at |-> at]

\* The conditions data/booked_slots.json can be in: there is no such file;
\* the directory data cannot be searched (stat fails with EACCES); the file
\* can be neither read nor written; it can be written but not read; its text
\* is not JSON; its text is JSON but not a list; its text is a JSON list.
FileKinds ==
    { "missing", "no_search", "no_access", "write_only", "invalid_json",
      "json_object", "json_list" }

\* load_booked_slots, the try block: open the file and json.load it
LoadTry(kind, content) ==
    IF kind \in { "no_access", "write_only" }
    THEN [raised |-> TRUE, value |-> << >>]
    ELSE IF kind = "invalid_json"
         THEN [raised |-> TRUE, value |-> << >>]
         ELSE [raised |-> FALSE,
               value |-> IF kind = "json_list" THEN content ELSE << >>]

\* utils.load_booked_slots.  booking_file.exists() is evaluated before the
\* try block: it is False for a missing file and raises PermissionError when
\* the directory cannot be searched.
load_booked_slots(kind, content) ==
    IF kind = "no_search" THEN [raised |-> TRUE, value |-> << >>]
    ELSE IF kind = "missing" THEN [raised |-> FALSE, value |-> << >>]
    ELSE LET t == LoadTry(kind, content) IN
         IF t.raised THEN [raised |-> FALSE, value |-> << >>] ELSE t

MutSaveBooking(kind, content, candidate_name, date, time, timezone, at) ==
    LET bookings == load_booked_slots(kind, content) IN
    IF bookings.raised \/ kind = "no_access"
    THEN [returned |-> FALSE, kind |-> kind, content |-> content]
    ELSE [returned |-> TRUE,
          kind |-> IF kind = "write_only" THEN kind ELSE "json_list",
          content |-> << NewBooking(candidate_name, date, time, timezone,
                                    at) >>]

\* utils.save_booking as a whole: what it returns and the file it leaves.
\* Everything is inside one try block; opening the file for writing raises
\* when the file cannot be written.
save_booking(kind, content, candidate_name, date, time, timezone, at) ==
    LET bookings == load_booked_slots(kind, content) IN
    IF bookings.raised \/ kind = "no_access"
    THEN [returned |-> FALSE, kind |-> kind, content |-> content]
    ELSE [returned |-> TRUE,
          kind |-> IF kind = "write_only" THEN kind ELSE "json_list",
          content |-> Append(bookings.value,
                             NewBooking(candidate_name, date, time,
                                        timezone, at))]

\* manage_bookings.load_bookings: as load_booked_slots, but whatever JSON
\* value the file holds is returned; `truthy` is whether that value is a
\* non-empty container.
load_bookings(kind, content) ==
    IF kind = "no_search" THEN [raised |-> TRUE, truthy |-> FALSE]
    ELSE IF kind \in { "missing", "no_access", "write_only", "invalid_json" }
         THEN [raised |-> FALSE, truthy |-> FALSE]
         ELSE [raised |-> FALSE,
               truthy |-> (kind = "json_object" \/ content # << >>)]

\* manage_bookings.clear_all_bookings with the confirmation "YES" typed:
\* nothing is written when load_bookings returned nothing; otherwise
\* save_bookings([]) replaces the file.
clear_all_bookings(kind, content) ==
    LET bookings == load_bookings(kind, content) IN
    IF bookings.raised
    THEN [outcome |-> "raised", kind |-> kind, content |-> content]
    ELSE IF ~bookings.truthy
         THEN [outcome |-> "nothing", kind |-> kind, content |-> content]
         ELSE [outcome |-> "cleared", kind |-> "json_list", content |-> << >>]

\* bookings.pop(index): the list without its element at 0-based index
Pop(bookings, index) ==
    [i \in 1..(Len(bookings) - 1) |->
        IF i <= index THEN bookings[i] ELSE bookings[i + 1]]

\* manage_bookings.cancel_booking with the number `choice` typed at the
\* prompt: index = choice - 1; 0 goes back; a number of the list removes
\* that booking and save_bookings rewrites the file; any other number is
\* refused.  A file holding a JSON object makes view_bookings raise.
cancel_booking(kind, content, choice) ==
    LET bookings == load_bookings(kind, content)
        index == choice - 1
    IN  IF bookings.raised \/ kind = "json_object"
        THEN [outcome |-> "raised", kind |-> kind, content |-> content]
        ELSE IF ~bookings.truthy
             THEN [outcome |-> "nothing", kind |-> kind, content |-> content]
             ELSE IF index = -1
                  THEN [outcome |-> "back", kind |-> kind, content |-> content]
                  ELSE IF 0 <= index /\ index < Len(content)
                       THEN [outcome |-> "cancelled", kind |-> "json_list",
                             content |-> Pop(content, index)]
                       ELSE [outcome |-> "invalid", kind |-> kind,
                             content |-> content]

(* --------------------------- slot allocator ---------------------------- *)
MutValidTimes(times) ==
    LET valid == SelectSeq(times, is_within_business_hours)
    IN  [i \in 1..Len(valid) |-> valid[Len(valid) + 1 - i]]

\* [t for t in times if is_within_business_hours(t)]
ValidTimes(times) == SelectSeq(times, is_within_business_hours)

MutInterviewSlot(date, time) ==
    [date |-> date, time |-> time,
     duration_minutes |-> DEFAULT_INTERVIEW_DURATION - 1, timezone |-> TIMEZONE]

\* models.InterviewSlot
InterviewSlot(date, time) ==
    [date |-> date, time |-> time,
     duration_minutes |-> DEFAULT_INTERVIEW_DURATION, timezone |-> TIMEZONE]

\* The variables of the while loop of generate_interview_slots
LoopState(slots, attempt_count, slot_date, time_index) ==
    [slots |-> slots, attempt_count |-> attempt_count,
     slot_date |-> slot_date, time_index |-> time_index]

MutLoopContinues(s) == Len(s.slots) < NUM_INTERVIEW_SLOTS

\* while len(slots) < NUM_INTERVIEW_SLOTS and attempt_count < max_attempts
LoopContinues(s) ==
    /\ Len(s.slots) < NUM_INTERVIEW_SLOTS
    /\ s.attempt_count < NUM_INTERVIEW_SLOTS * ATTEMPTS_PER_SLOT

\* One iteration of the while loop of generate_interview_slots
SlotStep(s, valid_times, bookings, hol, nowwd) ==
    LET day == SkipWeekend(nowwd, s.slot_date) IN
    IF is_holiday(hol, day)
    THEN LoopState(s.slots, s.attempt_count + 1, day + 1, s.time_index)
    ELSE LET proposed_date == FormatDate(nowwd, day)
             proposed_time ==
                 valid_times[(s.time_index % Len(valid_times)) + 1]
         IN  IF ~is_within_business_hours(proposed_time)
             THEN LoopState(s.slots, s.attempt_count + 1, day,
                            s.time_index + 1)
             ELSE LET found ==
                          IF is_slot_available(bookings, proposed_date,
                                               proposed_time)
                          THEN Append(s.slots,
                                      InterviewSlot(proposed_date,
                                                    proposed_time))
                          ELSE s.slots
                      next_day ==
                          IF (s.time_index + 1) % Len(valid_times) = 0
                          THEN day + 1 ELSE day
                  IN  LoopState(found, s.attempt_count + 1, next_day,
                                s.time_index + 1)

\* The while loop of generate_interview_slots, one iteration per unfolding:
\* slots, attempt_count, slot_date and time_index are the loop's variables.
RECURSIVE SlotLoop(_, _, _, _, _, _, _, _)
SlotLoop(slots, attempt_count, slot_date, time_index, valid_times, bookings, hol, nowwd) ==
    LET s == LoopState(slots, attempt_count, slot_date, time_index) IN
    IF ~LoopContinues(s) THEN slots
    ELSE LET n == SlotStep(s, valid_times, bookings, hol, nowwd)
         IN  SlotLoop(n.slots, n.attempt_count, n.slot_date, n.time_index,
                      valid_times, bookings, hol, nowwd)

MutStartToday(times, bookings, hol, nowwd) ==
    LET valid_times == ValidTimes(times) IN
    IF Len(valid_times) = 0 THEN << >>
    ELSE SlotLoop(<< >>, 0, 0, 0, valid_times, bookings, hol, nowwd)

\* InterviewCoordinatorAgent.generate_interview_slots, reading `bookings`
generate_interview_slots(times, bookings, hol, nowwd) ==
    LET valid_times == ValidTimes(times) IN
    IF Len(valid_times) = 0 THEN << >>
    ELSE SlotLoop(<< >>, 0, START_DAYS_AHEAD, 0, valid_times, bookings,
                  hol, nowwd)

(* ---------------------------- decision router -------------------------- *)
MutRouteWrongThreshold(screening_score) ==
    IF screening_score = << >> THEN "coordinate_reject"
    ELSE IF screening_score[1].score >= MODERATE_FIT_THRESHOLD
         THEN "coordinate_accept" ELSE "coordinate_reject"

MutRouteNoScoreAccepts(screening_score) ==
    IF screening_score = << >> THEN "coordinate_accept"
    ELSE IF screening_score[1].score >= QUALIFIED_CANDIDATE_THRESHOLD
         THEN "coordinate_accept" ELSE "coordinate_reject"

MutRouteAfterScreening(screening_score) ==
    IF screening_score = << >> THEN "coordinate_reject"
    ELSE IF screening_score[1].score > QUALIFIED_CANDIDATE_THRESHOLD
         THEN "coordinate_accept" ELSE "coordinate_reject"

\* DecisionSupervisorAgent.route_after_screening, on state["screening_score"]
route_after_screening(screening_score) ==
    IF screening_score = << >> THEN "coordinate_reject"
    ELSE IF screening_score[1].score >= QUALIFIED_CANDIDATE_THRESHOLD
         THEN "coordinate_accept" ELSE "coordinate_reject"

MutShouldRequireHumanReview(screening_score) ==
    IF screening_score = << >> THEN TRUE
    ELSE LET score == screening_score[1].score
             gaps == screening_score[1].gaps
         IN  IF REVIEW_BAND_LOW <= score /\ score < REVIEW_BAND_HIGH THEN TRUE
             ELSE IF score >= REVIEW_HIGH_SCORE /\ gaps >= REVIEW_GAP_LIMIT
                  THEN TRUE ELSE FALSE

\* DecisionSupervisorAgent.should_require_human_review; gaps is len(gaps)
should_require_human_review(screening_score) ==
    IF screening_score = << >> THEN TRUE
    ELSE LET score == screening_score[1].score
             gaps == screening_score[1].gaps
         IN  IF REVIEW_BAND_LOW <= score /\ score <= REVIEW_BAND_HIGH THEN TRUE
             ELSE IF score >= REVIEW_HIGH_SCORE /\ gaps # 0
                     /\ gaps > REVIEW_GAP_LIMIT
                  THEN TRUE ELSE FALSE

(* ------------------------------ retries -------------------------------- *)
\* What one invocation of the wrapped operation does: it returns, or raises
\* one of two exceptions.
RetryOutcomes == { "ok", "ValueError", "TimeoutError" }

\* The loop of retry_on_failure's wrapper, `for attempt in range(max_retries)`;
\* outcomes[i] is what the i-th invocation of func does.  events lists the
\* invocations of func ("call") and of time.sleep(delay) ("sleep") in order;
\* the result is the return value or the exception of the attempt it names.
\* When the loop body never runs the wrapper returns None.
RECURSIVE RetryLoop(_, _, _, _)
RetryLoop(max_retries, outcomes, attempt, events) ==
    IF ~(attempt < max_retries)
    THEN [events |-> events,
          result |-> [kind |-> "return", attempt |-> attempt, value |-> None]]
    ELSE LET called == Append(events, "call") IN
         IF outcomes[attempt + 1] = "ok"
         THEN [events |-> called,
               result |-> [kind |-> "return", attempt |-> attempt,
                           value |-> "ok"]]
         ELSE IF attempt < max_retries - 1
              THEN RetryLoop(max_retries, outcomes, attempt + 1,
                             Append(called, "sleep"))
              ELSE [events |-> called,
                    result |-> [kind |-> "raise", attempt |-> attempt,
                                value |-> outcomes[attempt + 1]]]

MutWrapper(max_retries, outcomes) ==
    RetryLoop(IF max_retries > 1 THEN 1 ELSE max_retries, outcomes, 0, << >>)

\* retry_on_failure(max_retries, delay)(func): the wrapper
wrapper(max_retries, outcomes) == RetryLoop(max_retries, outcomes, 0, << >>)

\* utils.retry_on_failure around an operation whose first `failures` attempts
\* raise: the result is returned, or the last failure re-raised.
retry_on_failure(max_retries, failures) ==
    LET outcomes == [i \in 1..max_retries |->
                        IF i <= failures THEN "ValueError" ELSE "ok"]
    IN  IF wrapper(max_retries, outcomes).result.kind = "return"
        THEN "ok" ELSE "raise"

(* ------------------------------- state --------------------------------- *)
VARIABLES
    store,         \* data/booked_slots.json: the list of bookings
    file,          \* data/booked_slots.json: the condition of the file
    env,           \* weekday of now, COMPANY_HOLIDAYS, preferred_times
    runs_started,  \* pipeline runs started so far
    pc,            \* per run: the graph node (or the step inside it) to run next
    st,            \* per run: the AgentState
    loc,           \* per run: locals of process_qualified and save_booking
    trace,         \* per run: the operations invoked so far, in order
    hist,          \* per run: what the analyzer scored, what the run committed
    confirmed,     \* the (date, time) pairs save_booking has returned True for
    probe          \* the router function applied to an input, and its result

vars == << store, file, env, runs_started, pc, st, loc, trace, hist, confirmed,
           probe >>

\* models.AgentState as the caller builds it: only the inputs are set
InitialState ==
    [resume_analysis |-> << >>, screening_score |-> << >>,
     interview_coordination |-> << >>, current_step |-> "start",
     decision |-> None, error |-> None]

NoLocals ==
    [run_no |-> 0, questions |-> 0, slots |-> << >>, bookings |-> << >>,
     saved |-> None]

NoHistory ==
    [score |-> << >>, answer |-> << >>, store_at_start |-> << >>,
     committed |-> << >>, known_at_generation |-> {}, stale_commit |-> FALSE,
     route |-> None, store_at_generation |-> << >>]

NoProbe ==
    [op |-> None, screening_score |-> << >>, result |-> None, slots |-> << >>,
     input |-> << >>, output |-> << >>]

\* Holiday calendars, as sets of day offsets from now
HolidaySets == { {}, {2, 3}, {4, 7, 9}, 4..8 }

\* The three environments the pipeline is run in: now a Monday with the
\* configured preferred times and no holiday near; now a Thursday (so that
\* now + 2 days is a Saturday) with a holiday on the Monday after and two of
\* the preferred times inside business hours; and a preferred-times list
\* with no time inside business hours.
PipelineEnvs ==
    { [now_weekday |-> 0, holidays |-> {}, times |-> PREFERRED_TIMES],
      [now_weekday |-> 3, holidays |-> {4},
       times |-> << T(9, 0, FALSE), T(12, 0, TRUE), T(1, 0, TRUE),
                    T(13, 30, TRUE), T(5, 0, TRUE), T(5, 1, TRUE) >>],
      [now_weekday |-> 0, holidays |-> {},
       times |-> << T(9, 59, FALSE), T(12, 1, TRUE), T(12, 0, FALSE) >>] }

Names == { None, "Ann" }
Classifications == { "Strong Fit", "Moderate Fit", "Not Suitable" }
ScoreSamples ==
    { SCORE_MIN, QUALIFIED_CANDIDATE_THRESHOLD - 1,
      QUALIFIED_CANDIDATE_THRESHOLD, SCORE_MAX }
\* Scores the scoring capability may answer with: the samples in range and
\* two outside the range of the field.
AnsweredScores == ScoreSamples \cup { SCORE_MIN - 1, SCORE_MAX + 50 }
GapSamples == { 0, MaxGaps }
NUM_INTERVIEW_QUESTIONS == 8

\* models.ScreeningScore (score, classification, number of gaps)
ScreeningScore(score, classification, gaps) ==
    [score |-> score, classification |-> classification, gaps |-> gaps]

MutValidScreeningScore(score, classification) ==
    score >= SCORE_MIN /\ classification \in Classifications

\* The validation pydantic runs when a ScreeningScore is constructed: the
\* constraints of the fields score and classification.  When it is FALSE the
\* constructor raises ValidationError and no object is made.
ValidScreeningScore(score, classification) ==
    /\ score >= SCORE_MIN
    /\ score <= SCORE_MAX
    /\ classification \in Classifications

Idle == \A r \in Runs : pc[r] = "idle"

InitFile(e, kind, bookings) ==
    /\ store = bookings
    /\ file = kind
    /\ env = e
    /\ runs_started = 0
    /\ pc = [r \in Runs |-> "idle"]
    /\ st = [r \in Runs |-> InitialState]
    /\ loc = [r \in Runs |-> NoLocals]
    /\ trace = [r \in Runs |-> << >>]
    /\ hist = [r \in Runs |-> NoHistory]
    /\ confirmed = {}
    /\ probe = NoProbe

InitWith(e, bookings) ==
    InitFile(e, IF bookings = << >> THEN "missing" ELSE "json_list", bookings)

Init == \E e \in PipelineEnvs : InitWith(e, << >>)

Pair(b) == [date |-> b.date, time |-> b.time]

Log(r, ops) == [trace EXCEPT ![r] = @ \o ops]

(* ------------------------------ workflow ------------------------------- *)
\* HRScreeningWorkflow.run: the caller's state enters the graph at its entry
\* point analyze_resume.
StartRun(r) ==
    /\ pc[r] = "idle"
    /\ runs_started < MaxRuns
    /\ runs_started' = runs_started + 1
    /\ pc' = [pc EXCEPT ![r] = "analyze_resume"]
    /\ st' = [st EXCEPT ![r] = InitialState]
    /\ loc' = [loc EXCEPT ![r] = [NoLocals EXCEPT !.run_no = runs_started + 1]]
    /\ trace' = [trace EXCEPT ![r] = << >>]
    /\ hist' = [hist EXCEPT ![r] = [NoHistory EXCEPT !.store_at_start = store]]
    /\ UNCHANGED << store, file, env, confirmed, probe >>

\* A run started while no other run is in progress; which entry of the run
\* table it takes makes no difference, so it takes the first.
StartRunAlone(r) == Idle /\ r = 1 /\ StartRun(r)

\* ResumeAnalyzerAgent.process (node analyze_resume): extract_resume_data and
\* score_candidate, each under retry_on_failure(max_retries=3); f_extract and
\* f_score are the numbers of attempts that raise.  The analyzer's answer is
\* the candidate name, the score, the classification and the gaps; the
\* ScreeningScore is constructed from the answer by the output parser (and by
\* the structured-output fallback), so an answer that fails validation makes
\* score_candidate raise.
AnalyzeResume(r, f_extract, f_score, name, score, classification, gaps) ==
    /\ pc[r] = "analyze_resume"
    /\ IF /\ retry_on_failure(MAX_RETRIES, f_extract) = "ok"
          /\ retry_on_failure(MAX_RETRIES, f_score) = "ok"
          /\ ValidScreeningScore(score, classification)
       THEN /\ st' = [st EXCEPT
                        ![r].resume_analysis = << [name |-> name] >>,
                        ![r].screening_score =
                            << ScreeningScore(score, classification, gaps) >>,
                        ![r].current_step = "analyzed"]
            /\ hist' = [hist EXCEPT
                          ![r].score = << score >>,
                          ![r].answer = << [score |-> score,
                                            classification |->
                                                classification] >>]
       ELSE /\ st' = [st EXCEPT
                        ![r].error = "Resume analysis failed",
                        ![r].current_step = "error"]
            /\ hist' = [hist EXCEPT
                          ![r].answer =
                              IF /\ retry_on_failure(MAX_RETRIES, f_extract)
                                      = "ok"
                                 /\ retry_on_failure(MAX_RETRIES, f_score)
                                      = "ok"
                              THEN << [score |-> score,
                                       classification |-> classification] >>
                              ELSE << >>]
    /\ trace' = Log(r, << "process" >>)
    /\ pc' = [pc EXCEPT ![r] = "route"]
    /\ UNCHANGED << store, file, env, runs_started, loc, confirmed, probe >>

\* HRScreeningWorkflow._route_after_analysis: the conditional edge after
\* analyze_resume, taken whatever update the node returned.
RouteAfterAnalysis(r) ==
    /\ pc[r] = "route"
    /\ pc' = [pc EXCEPT ![r] = route_after_screening(st[r].screening_score)]
    /\ hist' = [hist EXCEPT
                  ![r].route = route_after_screening(st[r].screening_score)]
    /\ trace' = Log(r, << "route_after_screening" >>)
    /\ UNCHANGED << store, file, env, runs_started, st, loc, confirmed, probe >>

\* The accept path up to the call of save_booking with a coordinator that
\* keeps state from one run to the next
MutGenerateSlots(r, q) ==
    /\ pc[r] = "coordinate_accept"
    /\ LET slots == generate_interview_slots(env.times, store, env.holidays,
                                             env.now_weekday + runs_started)
       IN  /\ loc' = [loc EXCEPT ![r].questions = q, ![r].slots = slots]
           /\ pc' = [pc EXCEPT ![r] = IF slots # << >> THEN "save_booking"
                                      ELSE "generate_invitation_email"]
    /\ hist' = [hist EXCEPT ![r].known_at_generation = confirmed,
                            ![r].store_at_generation = store]
    /\ trace' = Log(r, << "process_qualified", "generate_interview_questions",
                          "generate_interview_slots" >>)
    /\ UNCHANGED << store, file, env, runs_started, st, confirmed, probe >>

\* process_qualified up to the call of save_booking: the questions (each
\* question's failure is swallowed, so q of them are returned) and the slots,
\* generated against the store as it is now.
GenerateSlots(r, q) ==
    /\ pc[r] = "coordinate_accept"
    /\ LET slots == generate_interview_slots(env.times, store, env.holidays,
                                             env.now_weekday)
       IN  /\ loc' = [loc EXCEPT ![r].questions = q, ![r].slots = slots]
           /\ pc' = [pc EXCEPT ![r] = IF slots # << >> THEN "save_booking"
                                      ELSE "generate_invitation_email"]
    /\ hist' = [hist EXCEPT ![r].known_at_generation = confirmed,
                            ![r].store_at_generation = store]
    /\ trace' = Log(r, << "process_qualified", "generate_interview_questions",
                          "generate_interview_slots" >>)
    /\ UNCHANGED << store, file, env, runs_started, st, confirmed, probe >>

\* save_booking, first half: bookings = load_booked_slots()
LoadBookings(r) ==
    /\ pc[r] = "save_booking"
    /\ loc' = [loc EXCEPT ![r].bookings = load_booked_slots(file, store).value]
    /\ pc' = [pc EXCEPT ![r] = "save_booking_write"]
    /\ trace' = Log(r, << "save_booking" >>)
    /\ UNCHANGED << store, file, env, runs_started, st, hist, confirmed, probe >>

\* load_booked_slots when the file cannot be read or parsed: it returns []
LoadBookingsFails(r) ==
    /\ pc[r] = "save_booking"
    /\ loc' = [loc EXCEPT
                  ![r].bookings = load_booked_slots("invalid_json", store).value]
    /\ pc' = [pc EXCEPT ![r] = "save_booking_write"]
    /\ trace' = Log(r, << "save_booking" >>)
    /\ UNCHANGED << store, file, env, runs_started, st, hist, confirmed, probe >>

\* candidate_name = resume_analysis.candidate_info.name or "Unknown Candidate"
CandidateName(resume_analysis) ==
    IF resume_analysis[1].name = None THEN UNKNOWN_CANDIDATE
    ELSE resume_analysis[1].name

MutFirstSlot(slots) == slots[Len(slots)]

\* process_qualified: first_slot = slots[0], the slot that is booked
FirstSlot(slots) == slots[1]

\* generate_invitation_email: first_slot = interview_slots[0]
EmailSlot(interview_slots) == interview_slots[1]

\* save_booking, second half: append the new booking to the list that was
\* loaded and write the whole list back; it returns True.
WriteBookings(r) ==
    /\ pc[r] = "save_booking_write"
    /\ LET first_slot == FirstSlot(loc[r].slots)
           new_booking == NewBooking(CandidateName(st[r].resume_analysis),
                                     first_slot.date, first_slot.time,
                                     first_slot.timezone, loc[r].run_no)
       IN  /\ store' = Append(loc[r].bookings, new_booking)
           /\ file' = "json_list"
           /\ confirmed' = confirmed \cup { Pair(new_booking) }
           /\ hist' = [hist EXCEPT
                         ![r].committed = Append(@, new_booking),
                         ![r].stale_commit =
                             ~is_slot_available(store, first_slot.date,
                                                first_slot.time)]
    /\ loc' = [loc EXCEPT ![r].saved = "True"]
    /\ pc' = [pc EXCEPT ![r] = "generate_invitation_email"]
    /\ UNCHANGED << env, runs_started, st, trace, probe >>

MutWriteBookingsFails(r) ==
    /\ pc[r] = "save_booking_write"
    /\ loc' = [loc EXCEPT ![r].saved = "False"]
    /\ st' = [st EXCEPT ![r].error = "Interview coordination failed",
                        ![r].current_step = "error"]
    /\ pc' = [pc EXCEPT ![r] = "finalize"]
    /\ UNCHANGED << store, file, env, runs_started, trace, hist, confirmed,
                    probe >>

\* save_booking when opening or writing the file raises: the exception is
\* caught, nothing is stored and it returns False.
WriteBookingsFails(r) ==
    /\ pc[r] = "save_booking_write"
    /\ loc' = [loc EXCEPT ![r].saved = "False"]
    /\ pc' = [pc EXCEPT ![r] = "generate_invitation_email"]
    /\ UNCHANGED << store, file, env, runs_started, st, trace, hist, confirmed,
                    probe >>

\* suggest_interviewers for the job of the tests (department "Engineering",
\* title "AI Engineer")
suggest_interviewers == << "HR Manager", "Engineering Lead", "Technical Lead" >>

\* slots_text of generate_invitation_email: date, time and timezone of the slot
SlotsText(slot) ==
    [date |-> slot.date, time |-> slot.time, timezone |-> slot.timezone]

\* process_qualified from generate_invitation_email on.  The generator raises
\* ValueError on every attempt when interview_slots is empty, and otherwise
\* on its first f attempts; process_qualified turns an exception into an
\* error update.
InvitationEmail(r, f) ==
    /\ pc[r] = "generate_invitation_email"
    /\ IF loc[r].slots # << >> /\ retry_on_failure(MAX_RETRIES, f) = "ok"
       THEN st' = [st EXCEPT
                     ![r].interview_coordination =
                         << [interview_questions |-> loc[r].questions,
                             email_template |->
                                 [kind |-> "invitation",
                                  time_slot |->
                                      << SlotsText(EmailSlot(loc[r].slots)) >>],
                             interview_slots |-> loc[r].slots,
                             recommended_interviewers |->
                                 suggest_interviewers] >>,
                     ![r].decision = "accept",
                     ![r].current_step = "coordinated"]
       ELSE st' = [st EXCEPT
                     ![r].error = "Interview coordination failed",
                     ![r].current_step = "error"]
    /\ trace' = Log(r, << "generate_invitation_email" >>)
    /\ pc' = [pc EXCEPT ![r] = "finalize"]
    /\ UNCHANGED << store, file, env, runs_started, loc, hist, confirmed, probe >>

\* InterviewCoordinatorAgent.process_rejected (node coordinate_reject).
\* generate_rejection_email reads resume_analysis.candidate_info and
\* screening_score.gaps, so it raises on every attempt when either is None.
ProcessRejected(r, f) ==
    /\ pc[r] = "coordinate_reject"
    /\ IF /\ st[r].resume_analysis # << >>
          /\ st[r].screening_score # << >>
          /\ retry_on_failure(MAX_RETRIES, f) = "ok"
       THEN st' = [st EXCEPT
                     ![r].interview_coordination =
                         << [interview_questions |-> 0,
                             email_template |->
                                 [kind |-> "rejection", time_slot |-> << >>],
                             interview_slots |-> << >>,
                             recommended_interviewers |-> << >>] >>,
                     ![r].decision = "reject",
                     ![r].current_step = "coordinated"]
       ELSE st' = [st EXCEPT
                     ![r].error = "Rejection processing failed",
                     ![r].current_step = "error"]
    /\ trace' = Log(r, << "process_rejected", "generate_rejection_email" >>)
    /\ pc' = [pc EXCEPT ![r] = "finalize"]
    /\ UNCHANGED << store, file, env, runs_started, loc, hist, confirmed, probe >>

MutFinalize(r) ==
    /\ pc[r] = "finalize"
    /\ st' = [st EXCEPT ![r].current_step = "completed", ![r].error = None]
    /\ trace' = Log(r, << "finalize" >>)
    /\ pc' = [pc EXCEPT ![r] = "END"]
    /\ UNCHANGED << store, file, env, runs_started, loc, hist, confirmed, probe >>

\* HRScreeningWorkflow._finalize_node: log the summary, current_step completed
Finalize(r) ==
    /\ pc[r] = "finalize"
    /\ st' = [st EXCEPT ![r].current_step = "completed"]
    /\ trace' = Log(r, << "finalize" >>)
    /\ pc' = [pc EXCEPT ![r] = "END"]
    /\ UNCHANGED << store, file, env, runs_started, loc, hist, confirmed, probe >>

\* HRScreeningWorkflow.run, except branch: an exception escapes
\* workflow.invoke; the state returned is the caller's state with the error.
WorkflowRaises(r) ==
    /\ pc[r] \notin { "idle", "END" }
    /\ st' = [st EXCEPT ![r] = [InitialState EXCEPT
                                  !.error = "Workflow execution failed",
                                  !.current_step = "failed"]]
    /\ trace' = Log(r, << "raise" >>)
    /\ pc' = [pc EXCEPT ![r] = "END"]
    /\ UNCHANGED << store, file, env, runs_started, loc, hist, confirmed, probe >>

\* run() has returned its final state to the caller; the run's state is gone.
Return(r) ==
    /\ pc[r] = "END"
    /\ pc' = [pc EXCEPT ![r] = "idle"]
    /\ st' = [st EXCEPT ![r] = InitialState]
    /\ loc' = [loc EXCEPT ![r] = NoLocals]
    /\ trace' = [trace EXCEPT ![r] = << >>]
    /\ hist' = [hist EXCEPT ![r] = NoHistory]
    /\ UNCHANGED << store, file, env, runs_started, confirmed, probe >>

(* --------------------------- specifications ---------------------------- *)
\* Pipeline runs one after the other, with every failure the code handles:
\* capabilities that raise, a store that cannot be read or written, an
\* exception escaping the graph.
Next ==
    \E r \in Runs :
        \/ StartRunAlone(r)
        \/ \E f_extract \in 0..MAX_RETRIES, f_score \in { 0, MAX_RETRIES },
              name \in Names, score \in AnsweredScores,
              classification \in Classifications, gaps \in GapSamples :
                AnalyzeResume(r, f_extract, f_score, name, score,
                              classification, gaps)
        \/ RouteAfterAnalysis(r)
        \/ \E q \in { 0, NUM_INTERVIEW_QUESTIONS } : GenerateSlots(r, q)
        \/ LoadBookings(r)
        \/ LoadBookingsFails(r)
        \/ WriteBookings(r)
        \/ WriteBookingsFails(r)
        \/ \E f \in 0..MAX_RETRIES : InvitationEmail(r, f)
        \/ \E f \in 0..MAX_RETRIES : ProcessRejected(r, f)
        \/ Finalize(r)
        \/ WorkflowRaises(r)
        \/ Return(r)

Spec == Init /\ [][Next]_vars

\* Accepted candidates processed by concurrent runs against one store, with
\* no failure: the steps of different runs interleave at every store access.
InitConc ==
    InitWith([now_weekday |-> 0, holidays |-> {}, times |-> PREFERRED_TIMES],
             << >>)

NextConc ==
    \E r \in Runs :
        \/ StartRun(r)
        \/ AnalyzeResume(r, 0, 0, "Ann", 100, "Strong Fit", 0)
        \/ RouteAfterAnalysis(r)
        \/ GenerateSlots(r, NUM_INTERVIEW_QUESTIONS)
        \/ LoadBookings(r)
        \/ WriteBookings(r)
        \/ InvitationEmail(r, 0)
        \/ Finalize(r)
        \/ Return(r)

SpecConc == InitConc /\ [][NextConc]_vars

\* The decision router applied to a screening score, or to a state that has
\* none, outside any run.
ScoreInputs ==
    { << >> } \cup
    { << ScreeningScore(s, c, g) >> :
        s \in SCORE_MIN..SCORE_MAX, c \in Classifications, g \in 0..MaxGaps }

ApplyRoute(screening_score) ==
    /\ probe.op = None
    /\ probe' = [NoProbe EXCEPT
                   !.op = "route_after_screening",
                   !.screening_score = screening_score,
                   !.result = route_after_screening(screening_score)]
    /\ UNCHANGED << store, file, env, runs_started, pc, st, loc, trace, hist,
                    confirmed >>

ApplyReview(screening_score) ==
    /\ probe.op = None
    /\ probe' = [NoProbe EXCEPT
                   !.op = "should_require_human_review",
                   !.screening_score = screening_score,
                   !.result =
                       IF should_require_human_review(screening_score)
                       THEN "True" ELSE "False"]
    /\ UNCHANGED << store, file, env, runs_started, pc, st, loc, trace, hist,
                    confirmed >>

NextRouter ==
    \E screening_score \in ScoreInputs :
        \/ ApplyRoute(screening_score)
        \/ ApplyReview(screening_score)

SpecRouter == InitConc /\ [][NextRouter]_vars

\* retry_on_failure applied to every max_retries up to MaxAttempts and every
\* sequence of outcomes of the wrapped operation.
MaxAttempts == 4

ApplyRetry(max_retries, outcomes) ==
    /\ probe.op = None
    /\ probe' = [NoProbe EXCEPT
                   !.op = "retry_on_failure",
                   !.input = << [max_retries |-> max_retries,
                                 outcomes |-> outcomes] >>,
                   !.output = << wrapper(max_retries, outcomes) >>]
    /\ UNCHANGED << store, file, env, runs_started, pc, st, loc, trace, hist,
                    confirmed >>

NextRetry ==
    \E max_retries \in 0..MaxAttempts :
        \E outcomes \in [1..max_retries -> RetryOutcomes] :
            ApplyRetry(max_retries, outcomes)

SpecRetry == InitConc /\ [][NextRetry]_vars

\* The booking store under load_booked_slots, save_booking and
\* clear_all_bookings called one after the other, starting from a file in
\* every condition; at most MaxBookings bookings are saved.
MaxBookings == 3

InitStore ==
    \E kind \in FileKinds :
        InitFile([now_weekday |-> 0, holidays |-> {},
                  times |-> PREFERRED_TIMES], kind, << >>)

StoreLoad ==
    /\ probe' = [NoProbe EXCEPT
                   !.op = "load_booked_slots",
                   !.output = << load_booked_slots(file, store) >>]
    /\ UNCHANGED << store, file, env, runs_started, pc, st, loc, trace, hist,
                    confirmed >>

StoreSave(candidate_name, time) ==
    /\ Len(store) < MaxBookings
    /\ LET date == FormatDate(env.now_weekday, START_DAYS_AHEAD)
           saved == save_booking(file, store, candidate_name, date, time,
                                 TIMEZONE, Len(store) + 1)
       IN  /\ store' = saved.content
           /\ file' = saved.kind
           /\ probe' = [NoProbe EXCEPT
                          !.op = "save_booking",
                          !.input = << [candidate_name |-> candidate_name,
                                        date |-> date, time |-> time,
                                        timezone |-> TIMEZONE] >>,
                          !.output =
                              << [returned |-> saved.returned,
                                  before |-> load_booked_slots(file, store),
                                  after |-> load_booked_slots(saved.kind,
                                                              saved.content)] >>]
    /\ UNCHANGED << env, runs_started, pc, st, loc, trace, hist, confirmed >>

StoreClear ==
    /\ LET cleared == clear_all_bookings(file, store)
       IN  /\ store' = cleared.content
           /\ file' = cleared.kind
           /\ probe' = [NoProbe EXCEPT
                          !.op = "clear_all_bookings",
                          !.result = cleared.outcome,
                          !.output =
                              << load_booked_slots(cleared.kind,
                                                   cleared.content) >>]
    /\ UNCHANGED << env, runs_started, pc, st, loc, trace, hist, confirmed >>

NextStore ==
    \/ StoreLoad
    \/ \E candidate_name \in { "Ann", UNKNOWN_CANDIDATE },
          time \in { T(10, 0, FALSE), T(11, 0, FALSE) } :
            StoreSave(candidate_name, time)
    \/ StoreClear

SpecStore == InitStore /\ [][NextStore]_vars

\* The slot allocator applied to every start weekday, holiday calendar and
\* preferred-times list, over stores holding any subset of the slots it
\* offers in SampleRounds successive rounds (each round with the offers of
\* the earlier rounds booked).
SampleRounds == 2

BookAll(bookings, slots) ==
    bookings \o [i \in 1..Len(slots) |->
                    NewBooking("Ann", slots[i].date, slots[i].time,
                               slots[i].timezone, 0)]

RECURSIVE Offered(_, _, _)
Offered(e, bookings, rounds) ==
    IF rounds = 0 THEN bookings
    ELSE Offered(e,
                 BookAll(bookings,
                         generate_interview_slots(e.times, bookings,
                                                  e.holidays, e.now_weekday)),
                 rounds - 1)

RECURSIVE Pick(_, _, _)
Pick(bookings, chosen, i) ==
    IF i > Len(bookings) THEN << >>
    ELSE (IF i \in chosen THEN << bookings[i] >> ELSE << >>)
         \o Pick(bookings, chosen, i + 1)

InitSlots ==
    \E wd \in 0..6, hol \in HolidaySets, times \in TimesLists :
        LET e == [now_weekday |-> wd, holidays |-> hol, times |-> times]
            all == Offered(e, << >>, SampleRounds)
        IN  \E chosen \in SUBSET (1..Len(all)) :
                InitWith(e, Pick(all, chosen, 1))

Allocate ==
    /\ probe.op = None
    /\ probe' = [NoProbe EXCEPT
                   !.op = "generate_interview_slots",
                   !.slots = generate_interview_slots(env.times, store,
                                 env.holidays, env.now_weekday)]
    /\ UNCHANGED << store, file, env, runs_started, pc, st, loc, trace, hist,
                    confirmed >>

NextSlots == Allocate

SpecSlots == InitSlots /\ [][NextSlots]_vars

\* Two runs given the same analyzer answer, against a store that neither of
\* them has written yet: each run is taken up to its routing decision and,
\* on the accept path, up to its slot list.  The store holds any subset of
\* the slots the allocator offers on an empty store.
InitTwin ==
    \E e \in PipelineEnvs :
        LET all == Offered(e, << >>, 1)
        IN  \E chosen \in SUBSET (1..Len(all)) :
                InitWith(e, Pick(all, chosen, 1))

TwinAnalyze(r, name, score, classification, gaps) ==
    /\ \A other \in Runs \ { r } :
           hist[other].answer # << >> =>
               /\ st[other].screening_score
                      = << ScreeningScore(score, classification, gaps) >>
               /\ st[other].resume_analysis = << [name |-> name] >>
    /\ ValidScreeningScore(score, classification)
    /\ AnalyzeResume(r, 0, 0, name, score, classification, gaps)

NextTwin ==
    \E r \in Runs :
        \/ StartRun(r)
        \/ \E name \in Names, score \in ScoreSamples :
                TwinAnalyze(r, name, score, "Moderate Fit", 0)
        \/ RouteAfterAnalysis(r)
        \/ GenerateSlots(r, NUM_INTERVIEW_QUESTIONS)

SpecTwin == InitTwin /\ [][NextTwin]_vars

\* generate_interview_slots run one loop iteration at a time, for every
\* start weekday and preferred-times list, with no holiday, a few holidays
\* or every day up to Horizon a holiday, and with an empty store, a store
\* in which every preferred time of every day up to Horizon is booked, or
\* that store without its first two bookings.
Horizon == 70

AllBooked(e) ==
    [i \in 1..((Horizon - 1) * Len(e.times)) |->
        NewBooking("Ann",
                   FormatDate(e.now_weekday,
                              START_DAYS_AHEAD + ((i - 1) \div Len(e.times))),
                   e.times[((i - 1) % Len(e.times)) + 1], TIMEZONE, 0)]

InitLoop ==
    \E wd \in 0..6, hol \in HolidaySets \cup { 0..Horizon },
       times \in TimesLists,
       bookings \in { "none", "all", "all but two" } :
        LET e == [now_weekday |-> wd, holidays |-> hol, times |-> times]
        IN  InitWith(e, IF bookings = "none" THEN << >>
                        ELSE IF bookings = "all" THEN AllBooked(e)
                        ELSE Tail(Tail(AllBooked(e))))

\* valid_times is empty: return slots, which is empty
AllocNoValidTimes ==
    /\ probe.op = None
    /\ ValidTimes(env.times) = << >>
    /\ probe' = [NoProbe EXCEPT
                   !.op = "generate_interview_slots",
                   !.input = << ValidTimes(env.times) >>,
                   !.output = << LoopState(<< >>, 0, START_DAYS_AHEAD, 0) >>]
    /\ UNCHANGED << store, file, env, runs_started, pc, st, loc, trace, hist,
                    confirmed >>

\* the assignments before the while loop
AllocStart ==
    /\ probe.op = None
    /\ ValidTimes(env.times) # << >>
    /\ probe' = [NoProbe EXCEPT
                   !.op = "while",
                   !.input = << ValidTimes(env.times) >>,
                   !.output = << LoopState(<< >>, 0, START_DAYS_AHEAD, 0) >>]
    /\ UNCHANGED << store, file, env, runs_started, pc, st, loc, trace, hist,
                    confirmed >>

AllocIterate ==
    /\ probe.op = "while"
    /\ LoopContinues(probe.output[1])
    /\ probe' = [probe EXCEPT
                   !.output = << SlotStep(probe.output[1], probe.input[1],
                                          store, env.holidays,
                                          env.now_weekday) >>]
    /\ UNCHANGED << store, file, env, runs_started, pc, st, loc, trace, hist,
                    confirmed >>

\* the loop condition is false: return slots
AllocReturn ==
    /\ probe.op = "while"
    /\ ~LoopContinues(probe.output[1])
    /\ probe' = [probe EXCEPT
                   !.op = "generate_interview_slots",
                   !.slots = probe.output[1].slots]
    /\ UNCHANGED << store, file, env, runs_started, pc, st, loc, trace, hist,
                    confirmed >>

NextLoop == AllocNoValidTimes \/ AllocStart \/ AllocIterate \/ AllocReturn

SpecLoop == InitLoop /\ [][NextLoop]_vars /\ WF_vars(NextLoop)

\* chain.invoke inside extract_resume_data or score_candidate does not
\* return: the attempt neither succeeds nor raises, so the retry loop is not
\* re-entered, and run() has no timeout around workflow.invoke.  The run
\* stays inside the analyze_resume node.
CapabilityHangs(r) ==
    /\ pc[r] = "analyze_resume"
    /\ pc' = [pc EXCEPT ![r] = "blocked"]
    /\ UNCHANGED << store, file, env, runs_started, st, loc, trace, hist,
                    confirmed, probe >>

\* Runs one after the other in which a capability call may never return;
\* every step that can be taken is eventually taken.
NextHang ==
    \E r \in Runs :
        \/ StartRunAlone(r)
        \/ \E f_extract \in { 0, MAX_RETRIES }, name \in Names,
              score \in ScoreSamples :
                AnalyzeResume(r, f_extract, 0, name, score, "Moderate Fit", 0)
        \/ CapabilityHangs(r)
        \/ RouteAfterAnalysis(r)
        \/ GenerateSlots(r, NUM_INTERVIEW_QUESTIONS)
        \/ LoadBookings(r)
        \/ WriteBookings(r)
        \/ \E f \in { 0, MAX_RETRIES } : InvitationEmail(r, f)
        \/ \E f \in { 0, MAX_RETRIES } : ProcessRejected(r, f)
        \/ Finalize(r)
        \/ Return(r)

\* The steps of NextHang other than slot generation: the interpreter takes
\* each of them as soon as the run stands before it.
HangFair ==
    \E r \in Runs :
        \/ StartRunAlone(r)
        \/ \E f_extract \in { 0, MAX_RETRIES }, name \in Names,
              score \in ScoreSamples :
                AnalyzeResume(r, f_extract, 0, name, score, "Moderate Fit", 0)
        \/ RouteAfterAnalysis(r)
        \/ LoadBookings(r)
        \/ WriteBookings(r)
        \/ \E f \in { 0, MAX_RETRIES } : InvitationEmail(r, f)
        \/ \E f \in { 0, MAX_RETRIES } : ProcessRejected(r, f)
        \/ Finalize(r)
        \/ Return(r)

\* Slot generation is a bounded loop (ATTEMPTS_PER_SLOT tries a slot), so a
\* run does not stay before it for ever: GenerateSlots is enabled exactly
\* when pc[r] = "coordinate_accept" and leaves that position.
SlotsFair == []<>(\A r \in Runs : pc[r] # "coordinate_accept")

SpecHang == InitConc /\ [][NextHang]_vars /\ WF_vars(HangFair) /\ SlotsFair

\* run() called twice in sequence with the same input and the same
\* capability outputs (every capability call succeeds), on a store that is
\* empty, fully booked up to Horizon, or fully booked but for its first one
\* or two slots.
InitRepeat ==
    \E e \in PipelineEnvs, free \in { "all", "none", "one", "two" } :
        InitWith(e, IF free = "all" THEN << >>
                    ELSE IF free = "none" THEN AllBooked(e)
                    ELSE IF free = "one" THEN Tail(AllBooked(e))
                    ELSE Tail(Tail(AllBooked(e))))

\* the second call of run() is made when the first has returned
RepeatStart(r) ==
    /\ \/ r = 1 /\ Idle
       \/ r = 2 /\ pc[1] = "END"
    /\ StartRun(r)

NextRepeat ==
    \E r \in Runs :
        \/ RepeatStart(r)
        \/ \E name \in Names, score \in ScoreSamples,
              classification \in Classifications :
                TwinAnalyze(r, name, score, classification, 0)
        \/ RouteAfterAnalysis(r)
        \/ GenerateSlots(r, NUM_INTERVIEW_QUESTIONS)
        \/ LoadBookings(r)
        \/ WriteBookings(r)
        \/ InvitationEmail(r, 0)
        \/ ProcessRejected(r, 0)
        \/ Finalize(r)

SpecRepeat == InitRepeat /\ [][NextRepeat]_vars

\* Pipeline runs one after the other and, between the runs, the operations
\* of the booking manager; the store starts empty and every read and write
\* of the file succeeds.
AdminCancel(choice) ==
    /\ Idle
    /\ LET cancelled == cancel_booking(file, store, choice)
       IN  /\ store' = cancelled.content
           /\ file' = cancelled.kind
           /\ probe' = [NoProbe EXCEPT
                          !.op = "cancel_booking",
                          !.result = cancelled.outcome,
                          !.input = << choice >>]
    /\ UNCHANGED << env, runs_started, pc, st, loc, trace, hist, confirmed >>

AdminClear == Idle /\ StoreClear

NextAdmin ==
    \/ \E r \in Runs :
          \/ StartRunAlone(r)
          \/ \E name \in Names, score \in ScoreSamples :
                AnalyzeResume(r, 0, 0, name, score, "Moderate Fit", 0)
          \/ RouteAfterAnalysis(r)
          \/ GenerateSlots(r, NUM_INTERVIEW_QUESTIONS)
          \/ LoadBookings(r)
          \/ WriteBookings(r)
          \/ \E f \in { 0, MAX_RETRIES } : InvitationEmail(r, f)
          \/ ProcessRejected(r, 0)
          \/ Finalize(r)
          \/ Return(r)
    \/ \E choice \in 0..(MaxRuns + 1) : AdminCancel(choice)
    \/ AdminClear

SpecAdmin == Init /\ [][NextAdmin]_vars

\* Concurrent accept-path runs as in NextConc and, whenever no run is in
\* progress, the operations of the booking manager.
NextConcAdmin ==
    \/ \E r \in Runs :
          \/ StartRun(r)
          \/ AnalyzeResume(r, 0, 0, "Ann", 100, "Strong Fit", 0)
          \/ RouteAfterAnalysis(r)
          \/ GenerateSlots(r, NUM_INTERVIEW_QUESTIONS)
          \/ LoadBookings(r)
          \/ WriteBookings(r)
          \/ InvitationEmail(r, 0)
          \/ Finalize(r)
          \/ Return(r)
    \/ \E choice \in 0..(MaxRuns + 1) : AdminCancel(choice)
    \/ AdminClear

SpecConcAdmin == InitConc /\ [][NextConcAdmin]_vars

\* generate_interview_slots called again and again on one store, at most
\* MaxCalls times between two bookings; between the calls the first slot of
\* the last list may be booked, as process_qualified does.
MaxCalls == 3

MutAllocateAgain ==
    /\ probe.op \in { None, "save_booking" }
          \/ (probe.op = "generate_interview_slots"
              /\ probe.input[1] < MaxCalls)
    /\ LET slots == generate_interview_slots(env.times, store, env.holidays,
                                             env.now_weekday)
       IN  /\ probe' = [NoProbe EXCEPT
                          !.op = "generate_interview_slots",
                          !.slots = slots,
                          !.input =
                              << IF probe.op = "generate_interview_slots"
                                 THEN probe.input[1] + 1 ELSE 1 >>,
                          !.output =
                              IF probe.op = "generate_interview_slots"
                              THEN << probe.slots >> ELSE << >>]
           /\ store' = IF slots = << >> \/ Len(store) >= MaxBookings
                       THEN store
                       ELSE Append(store,
                                   NewBooking("Ann", slots[1].date,
                                              slots[1].time, slots[1].timezone,
                                              Len(store) + 1))
    /\ UNCHANGED << file, env, runs_started, pc, st, loc, trace, hist,
                    confirmed >>

\* One call of generate_interview_slots: probe.input counts the calls since
\* the last booking and probe.output keeps the list of the call before.
AllocateAgain ==
    /\ probe.op \in { None, "save_booking" }
          \/ (probe.op = "generate_interview_slots"
              /\ probe.input[1] < MaxCalls)
    /\ probe' = [NoProbe EXCEPT
                   !.op = "generate_interview_slots",
                   !.slots = generate_interview_slots(env.times, store,
                                 env.holidays, env.now_weekday),
                   !.input = << IF probe.op = "generate_interview_slots"
                                THEN probe.input[1] + 1 ELSE 1 >>,
                   !.output = IF probe.op = "generate_interview_slots"
                              THEN << probe.slots >> ELSE << >>]
    /\ UNCHANGED << store, file, env, runs_started, pc, st, loc, trace, hist,
                    confirmed >>

\* process_qualified: if slots, save_booking for slots[0]
BookFirstSlot(candidate_name) ==
    /\ probe.op = "generate_interview_slots"
    /\ probe.slots # << >>
    /\ Len(store) < MaxBookings
    /\ LET first_slot == FirstSlot(probe.slots)
           saved == save_booking(file, store, candidate_name, first_slot.date,
                                 first_slot.time, first_slot.timezone,
                                 Len(store) + 1)
       IN  /\ store' = saved.content
           /\ file' = saved.kind
    /\ probe' = [NoProbe EXCEPT !.op = "save_booking"]
    /\ UNCHANGED << env, runs_started, pc, st, loc, trace, hist, confirmed >>

NextReread ==
    \/ AllocateAgain
    \/ \E candidate_name \in { "Ann", UNKNOWN_CANDIDATE } :
          BookFirstSlot(candidate_name)

SpecReread == Init /\ [][NextReread]_vars

\* is_within_business_hours applied to time strings "hh:mm AM|PM", among
\* them strings strptime refuses (hour 0 or 13, minute 60).
CheckHours(t) ==
    /\ probe' = [NoProbe EXCEPT
                   !.op = "is_within_business_hours",
                   !.input = << t >>,
                   !.result = IF is_within_business_hours(t)
                              THEN "True" ELSE "False"]
    /\ UNCHANGED << store, file, env, runs_started, pc, st, loc, trace, hist,
                    confirmed >>

NextHours ==
    \E hh \in 0..13, mm \in { 0, 1, 30, 59, 60 }, pm \in BOOLEAN :
        CheckHours(T(hh, mm, pm))

SpecHours == InitConc /\ [][NextHours]_vars

(* ------------------------------ properties ----------------------------- *)
InTrace(r, op) == \E i \in 1..Len(trace[r]) : trace[r][i] = op

Calls(r, op) == Cardinality({ i \in 1..Len(trace[r]) : trace[r][i] = op })

\* the run's analyze stage was executed and produced no score
AnalysisFailed(r) ==
    /\ trace[r] # << >>
    /\ trace[r][1] = "process"
    /\ hist[r].score = << >>

\* C1: concurrent accept-path runs against one store, started on an empty
\* store, never commit the same (date, time) twice, and when all the runs
\* have ended the store holds one booking per run.
C1_ConcurrentRunsBookDistinctSlots ==
    /\ \A i, j \in 1..Len(store) :
           i # j => Pair(store[i]) # Pair(store[j])
    /\ Idle => Len(store) = runs_started

\* C2: when the analyze stage fails, the run is not routed, neither
\* coordination branch is executed, and the run ends in the failed state
\* with the error recorded.
C2_AnalyzeFailureStopsRun ==
    \A r \in Runs :
        AnalysisFailed(r) =>
            /\ ~InTrace(r, "route_after_screening")
            /\ ~InTrace(r, "process_qualified")
            /\ ~InTrace(r, "process_rejected")
            /\ pc[r] = "END" =>
                   st[r].current_step = "failed" /\ st[r].error # None

\* C3: a run in which a stage failed ends with current_step "failed" and an
\* error string; no final state is "completed" with an error.
C3_FailedRunsEndFailed ==
    \A r \in Runs :
        pc[r] = "END" =>
            /\ st[r].error # None => st[r].current_step = "failed"
            /\ ~(st[r].current_step = "completed" /\ st[r].error # None)

\* C4: once save_booking has returned True for (date, time), the pair is
\* not available, and no slot list generated afterwards holds it.
C4_BookedSlotStaysUnavailable ==
    /\ \A p \in confirmed : ~is_slot_available(store, p.date, p.time)
    /\ \A r \in Runs : \A i \in 1..Len(loc[r].slots) :
           Pair(loc[r].slots[i]) \notin hist[r].known_at_generation

\* C5: every slot generate_interview_slots returns is on a Monday to Friday,
\* not on a holiday, at a time within [10:00, 12:00] or [14:00, 17:00].
C5_SlotsAreValid ==
    probe.op = "generate_interview_slots" =>
        \A i \in 1..Len(probe.slots) :
            LET slot == probe.slots[i] IN
            /\ slot.date.weekday \in 0..4
            /\ slot.date.weekday = (env.now_weekday + slot.date.day) % 7
            /\ slot.date.day \notin env.holidays
            /\ \E m \in (600..720) \cup (840..1020) :
                   ParseTime(slot.time) =
                       << [hour |-> m \div 60, minute |-> m % 60] >>

\* C5 witness: three slots returned when now + 2 days falls on a weekend,
\* the calendar has holidays, the preferred times include invalid ones and
\* some offered slots are already booked.
C5_Witness ==
    /\ probe.op = "generate_interview_slots"
    /\ Len(probe.slots) = NUM_INTERVIEW_SLOTS
    /\ (env.now_weekday + START_DAYS_AHEAD) % 7 >= 5
    /\ \E d \in env.holidays : (env.now_weekday + d) % 7 < 5
                               /\ d < probe.slots[1].date.day
    /\ env.times # PREFERRED_TIMES
    /\ Len(store) >= 2

\* the run has reached the call of generate_invitation_email
EmailReached(r) ==
    pc[r] = "generate_invitation_email"
    \/ InTrace(r, "generate_invitation_email")

\* C6 (as claimed): whenever the slot list is non-empty, exactly one
\* booking is committed in the run, for the first slot under the candidate's
\* name, before the invitation is generated for that same slot.
C6_ExactlyOneBookingCommitted ==
    \A r \in Runs :
        (loc[r].slots # << >> /\ EmailReached(r)) =>
            /\ Len(hist[r].committed) = 1
            /\ Pair(hist[r].committed[1]) = Pair(loc[r].slots[1])

\* C6 (amended): whenever the slot list is non-empty, save_booking is called
\* exactly once and has returned before generate_invitation_email starts; it
\* commits one booking, for the first slot under the candidate's name (or
\* "Unknown Candidate"), when it returns True and none when it returns
\* False; the invitation is generated for that same first slot.
C6_FirstSlotBookedBeforeInvitation ==
    \A r \in Runs :
        (loc[r].slots # << >> /\ EmailReached(r)) =>
            /\ Calls(r, "save_booking") = 1
            /\ loc[r].saved \in { "True", "False" }
            /\ loc[r].saved = "False" => hist[r].committed = << >>
            /\ loc[r].saved = "True" =>
                   /\ Len(hist[r].committed) = 1
                   /\ Pair(hist[r].committed[1]) = Pair(loc[r].slots[1])
                   /\ hist[r].committed[1].timezone = loc[r].slots[1].timezone
                   /\ st[r].resume_analysis # << >> =>
                          hist[r].committed[1].candidate_name =
                              IF st[r].resume_analysis[1].name = None
                              THEN "Unknown Candidate"
                              ELSE st[r].resume_analysis[1].name
            /\ \A i, j \in 1..Len(trace[r]) :
                   (trace[r][i] = "save_booking"
                    /\ trace[r][j] = "generate_invitation_email") => i < j
            /\ st[r].interview_coordination # << >> =>
                   LET email == st[r].interview_coordination[1].email_template
                       first == loc[r].slots[1]
                   IN  /\ email.kind = "invitation"
                       /\ email.time_slot =
                              << [date |-> first.date, time |-> first.time,
                                  timezone |-> first.timezone] >>

\* C6 witness: a run with three slots whose booking of the first one was
\* committed on top of an earlier booking and whose invitation was generated.
C6_Witness ==
    \E r \in Runs :
        /\ Len(loc[r].slots) = NUM_INTERVIEW_SLOTS
        /\ loc[r].saved = "True"
        /\ Len(store) = 2
        /\ store[2] = hist[r].committed[1]
        /\ st[r].interview_coordination # << >>
        /\ st[r].decision = "accept"

\* C7: the accept path re-checks the first slot against the store as it is
\* when the booking is committed; a slot booked since the generation is
\* not committed.
C7_CommitRechecksAvailability ==
    \A r \in Runs : ~hist[r].stale_commit

\* C8 (as claimed): a run scored below 70 that reaches the end of the graph
\* has taken the reject branch and ends with decision "reject", never calls the allocator or save_booking, leaves
\* the store as it was, and its coordination output holds only a rejection
\* email.
C8_RejectedRunOnlyEmails ==
    \A r \in Runs :
        (pc[r] = "END" /\ st[r].current_step = "completed"
         /\ hist[r].score # << >> /\ hist[r].score[1] < 70) =>
            /\ InTrace(r, "process_rejected")
            /\ st[r].decision = "reject"
            /\ ~InTrace(r, "generate_interview_slots")
            /\ ~InTrace(r, "save_booking")
            /\ store = hist[r].store_at_start
            /\ st[r].interview_coordination # << >>

\* C8 (amended): a run scored below 70 never enters the accept branch,
\* never calls the allocator or save_booking and leaves the store as it was;
\* when it ends with no error recorded, the reject branch was taken, the
\* decision is "reject" and the coordination output holds no question, no
\* slot, no interviewer and a rejection email.
C8_RejectedRunNeverBooks ==
    \A r \in Runs :
        (hist[r].score # << >> /\ hist[r].score[1] < 70) =>
            /\ ~InTrace(r, "process_qualified")
            /\ ~InTrace(r, "generate_interview_slots")
            /\ ~InTrace(r, "save_booking")
            /\ hist[r].committed = << >>
            /\ store = hist[r].store_at_start
            /\ (pc[r] = "END" /\ st[r].error = None) =>
                   /\ InTrace(r, "process_rejected")
                   /\ st[r].decision = "reject"
                   /\ st[r].interview_coordination =
                          << [interview_questions |-> 0,
                              email_template |->
                                  [kind |-> "rejection", time_slot |-> << >>],
                              interview_slots |-> << >>,
                              recommended_interviewers |-> << >>] >>

\* C8 witness: a run scored 69 has ended with decision "reject" while the
\* store holds a booking of an earlier run.
C8_Witness ==
    \E r \in Runs :
        /\ pc[r] = "END"
        /\ hist[r].score = << 69 >>
        /\ st[r].decision = "reject"
        /\ st[r].error = None
        /\ store # << >>

C10_ReviewBandOrGaps ==
    (probe.op = "should_require_human_review"
     /\ probe.screening_score # << >>) =>
        LET s == probe.screening_score[1].score
            g == probe.screening_score[1].gaps
        IN  probe.result = "True"
                <=> ((65 <= s /\ s <= 75) \/ (s >= 80 /\ g > 2))

\* C10 witness: score 85 with 3 gaps requires human review.
C10_Witness ==
    /\ probe.op = "should_require_human_review"
    /\ probe.screening_score # << >>
    /\ probe.screening_score[1].score = 85
    /\ probe.screening_score[1].gaps = 3
    /\ probe.result = "True"

\* C11: every ScreeningScore held in the state of a run has the
\* classification its score has under the fixed thresholds: Strong Fit iff
\* score >= 75, Moderate Fit iff 50 <= score < 75, Not Suitable iff
\* score < 50, whatever classification the scoring capability answered.
C11_ClassificationMatchesScore ==
    \A r \in Runs :
        st[r].screening_score # << >> =>
            LET score == st[r].screening_score[1].score
                classification == st[r].screening_score[1].classification
            IN  /\ classification = "Strong Fit"
                       <=> score >= STRONG_FIT_THRESHOLD
                /\ classification = "Moderate Fit"
                       <=> (MODERATE_FIT_THRESHOLD <= score
                            /\ score < STRONG_FIT_THRESHOLD)
                /\ classification = "Not Suitable"
                       <=> score < MODERATE_FIT_THRESHOLD

\* C12: a ScreeningScore whose score is outside 0..100 is never constructed:
\* when the scoring capability answers such a score the construction fails,
\* the run holds no screening score (the value is not clamped into range)
\* and records an error; every screening score in a state is within 0..100.
C12_OutOfRangeScoreRejected ==
    \A r \in Runs :
        /\ st[r].screening_score # << >> =>
               /\ st[r].screening_score[1].score >= SCORE_MIN
               /\ st[r].screening_score[1].score <= SCORE_MAX
        /\ (/\ hist[r].answer # << >>
            /\ hist[r].answer[1].score \notin SCORE_MIN..SCORE_MAX)
           => /\ st[r].screening_score = << >>
              /\ hist[r].score = << >>
              /\ st[r].error # None

C12_Witness ==
    \E r \in Runs :
        /\ hist[r].answer # << >>
        /\ hist[r].answer[1].score > SCORE_MAX
        /\ st[r].screening_score = << >>
        /\ st[r].error = "Resume analysis failed"
        /\ pc[r] = "route"

\* C13: for max_retries >= 1 the wrapper of retry_on_failure invokes the
\* operation at most max_retries times; it returns the result of the first
\* attempt that succeeds and makes no attempt after it; it sleeps once
\* between two consecutive attempts and not after the last; when every
\* attempt fails it raises the exception of the last attempt.
C13_RetryAtMostMaxRetries ==
    (probe.op = "retry_on_failure" /\ probe.input[1].max_retries >= 1) =>
        LET n == probe.input[1].max_retries
            o == probe.input[1].outcomes
            events == probe.output[1].events
            result == probe.output[1].result
            calls == Cardinality({ i \in 1..Len(events) : events[i] = "call" })
            succeeding == { i \in 1..n : o[i] = "ok" }
        IN  /\ calls <= n
            /\ Len(events) = 2 * calls - 1
            /\ \A i \in 1..Len(events) :
                   events[i] = (IF i % 2 = 1 THEN "call" ELSE "sleep")
            /\ succeeding # {} =>
                   LET first == CHOOSE i \in succeeding :
                                    \A j \in succeeding : i <= j
                   IN  /\ result = [kind |-> "return", attempt |-> first - 1,
                                    value |-> "ok"]
                       /\ calls = first
            /\ succeeding = {} =>
                   /\ result = [kind |-> "raise", attempt |-> n - 1,
                                value |-> o[n]]
                   /\ calls = n

C13_Witness ==
    /\ probe.op = "retry_on_failure"
    /\ probe.input[1].max_retries = MAX_RETRIES
    /\ probe.input[1].outcomes = << "ValueError", "ValueError", "TimeoutError" >>
    /\ probe.output[1].result.kind = "raise"
    /\ probe.output[1].result.value = "TimeoutError"

\* C14: load_booked_slots never raises: it returns the empty list when the
\* file is missing, unreadable, not valid JSON or not a JSON list, and the
\* stored bookings in stored order otherwise.
C14_LoadNeverRaises ==
    probe.op = "load_booked_slots" =>
        /\ ~probe.output[1].raised
        /\ probe.output[1].value = (IF file = "json_list" THEN store ELSE << >>)

\* C15: on a cleared store load_booked_slots returns the empty list, and
\* after every save_booking(b) that returned True the loaded list is the
\* list loaded before it with exactly one record appended, which has b's
\* candidate name, date, time and timezone.
C15_SaveAppendsOneRecord ==
    /\ (probe.op = "clear_all_bookings" /\ probe.result = "cleared") =>
           probe.output[1] = [raised |-> FALSE, value |-> << >>]
    /\ (probe.op = "save_booking" /\ probe.output[1].returned) =>
           LET before == probe.output[1].before
               after == probe.output[1].after
               b == probe.input[1]
           IN  /\ ~before.raised /\ ~after.raised
               /\ Len(after.value) = Len(before.value) + 1
               /\ SubSeq(after.value, 1, Len(before.value)) = before.value
               /\ LET rec == after.value[Len(after.value)]
                  IN  /\ rec.candidate_name = b.candidate_name
                      /\ rec.date = b.date
                      /\ rec.time = b.time
                      /\ rec.timezone = b.timezone

\* C15 (amended): as above for every save_booking(b) that returned True on
\* a store file that can be read afterwards (one that can be written but
\* not read takes the booking and still loads as the empty list).
C15_SaveAppendsOneRecordWhenReadable ==
    /\ (probe.op = "clear_all_bookings" /\ probe.result = "cleared") =>
           probe.output[1] = [raised |-> FALSE, value |-> << >>]
    /\ (/\ probe.op = "save_booking"
        /\ probe.output[1].returned
        /\ file # "write_only") =>
           LET before == probe.output[1].before
               after == probe.output[1].after
               b == probe.input[1]
           IN  /\ ~before.raised /\ ~after.raised
               /\ after.value = store
               /\ Len(after.value) = Len(before.value) + 1
               /\ SubSeq(after.value, 1, Len(before.value)) = before.value
               /\ LET rec == after.value[Len(after.value)]
                  IN  /\ rec.candidate_name = b.candidate_name
                      /\ rec.date = b.date
                      /\ rec.time = b.time
                      /\ rec.timezone = b.timezone

C15_Witness ==
    /\ probe.op = "save_booking"
    /\ probe.output[1].returned
    /\ file = "json_list"
    /\ Len(probe.output[1].before.value) = 1
    /\ Len(probe.output[1].after.value) = 2

\* C16: when persisting the booking fails, save_booking returns False and
\* raises nothing: the run records no error for it and goes on to
\* generate_invitation_email; when the email generator then succeeds the run
\* has decision 'accept' and the invitation is for the first slot.
C16_FailedSaveDoesNotBlockInvitation ==
    \A r \in Runs :
        loc[r].saved = "False" =>
            /\ pc[r] \in { "generate_invitation_email", "finalize", "END" }
            /\ (pc[r] \in { "finalize", "END" } /\ ~InTrace(r, "raise"))
                   => InTrace(r, "generate_invitation_email")
            /\ pc[r] = "generate_invitation_email" =>
                   /\ st[r].error = None
                   /\ st[r].current_step = "analyzed"
            /\ (InTrace(r, "generate_invitation_email") /\ st[r].error = None)
                   => /\ st[r].decision = "accept"
                      /\ st[r].interview_coordination # << >>
                      /\ st[r].interview_coordination[1].email_template
                             = [kind |-> "invitation",
                                time_slot |->
                                    << SlotsText(FirstSlot(loc[r].slots)) >>]

C16_Witness ==
    \E r \in Runs :
        /\ loc[r].saved = "False"
        /\ pc[r] = "END"
        /\ st[r].decision = "accept"
        /\ st[r].error = None
        /\ st[r].interview_coordination # << >>
        /\ store = hist[r].store_at_start

\* C17: generate_interview_slots always terminates: its loop makes at most
\* 45 attempts and collects at most 3 slots, it returns as soon as 3 slots
\* are collected or 45 attempts are made, whatever the store and the
\* holidays are, and what it returns then is the list collected so far.
C17_AllocatorTerminates ==
    /\ [](probe.op \in { "while", "generate_interview_slots" } =>
            LET s == probe.output[1] IN
            /\ s.attempt_count <= NUM_INTERVIEW_SLOTS * ATTEMPTS_PER_SLOT
            /\ Len(s.slots) <= NUM_INTERVIEW_SLOTS
            /\ probe.op = "generate_interview_slots" =>
                   /\ probe.slots = s.slots
                   /\ \/ probe.input[1] = << >>
                      \/ Len(s.slots) = NUM_INTERVIEW_SLOTS
                      \/ s.attempt_count
                             = NUM_INTERVIEW_SLOTS * ATTEMPTS_PER_SLOT
            /\ Len(s.slots) <= s.attempt_count)
    /\ <>(probe.op = "generate_interview_slots")

C17_Witness ==
    /\ probe.op = "generate_interview_slots"
    /\ probe.input[1] # << >>
    /\ probe.output[1].attempt_count = NUM_INTERVIEW_SLOTS * ATTEMPTS_PER_SLOT
    /\ Len(probe.slots) < NUM_INTERVIEW_SLOTS
    /\ Len(probe.slots) > 0

\* C18: generate_interview_slots returns exactly NUM_INTERVIEW_SLOTS (3)
\* slots, each with duration_minutes 60.
C18_ExactlyThreeSlots ==
    probe.op = "generate_interview_slots" =>
        /\ Len(probe.slots) = NUM_INTERVIEW_SLOTS
        /\ \A i \in 1..Len(probe.slots) :
               probe.slots[i].duration_minutes = DEFAULT_INTERVIEW_DURATION

\* C18 (amended): generate_interview_slots returns at most 3 slots, each
\* with duration_minutes 60, and exactly 3 unless no preferred time is
\* within business hours or 45 attempts were made before 3 were found.
C18_AtMostThreeSlots ==
    probe.op = "generate_interview_slots" =>
        /\ Len(probe.slots) <= NUM_INTERVIEW_SLOTS
        /\ \A i \in 1..Len(probe.slots) :
               probe.slots[i].duration_minutes = DEFAULT_INTERVIEW_DURATION
        /\ Len(probe.slots) < NUM_INTERVIEW_SLOTS =>
               \/ probe.input[1] = << >>
               \/ probe.output[1].attempt_count
                      = NUM_INTERVIEW_SLOTS * ATTEMPTS_PER_SLOT

C18_Witness ==
    /\ probe.op = "generate_interview_slots"
    /\ Len(probe.slots) = NUM_INTERVIEW_SLOTS
    /\ env.holidays # {}
    /\ probe.output[1].attempt_count > NUM_INTERVIEW_SLOTS

\* C19: when the allocator yields no slot, the accept path still completes:
\* once process_qualified has returned, the run has decision 'accept', an
\* interview coordination with an empty slot list, and no error recorded.
C19_NoSlotsStillAccepts ==
    \A r \in Runs :
        (/\ InTrace(r, "generate_interview_slots")
         /\ loc[r].slots = << >>
         /\ pc[r] \in { "finalize", "END" }
         /\ ~InTrace(r, "raise"))
        => /\ st[r].decision = "accept"
           /\ st[r].error = None
           /\ st[r].interview_coordination # << >>
           /\ st[r].interview_coordination[1].interview_slots = << >>

\* C20: when the analysis succeeded and a later stage failed, by an error
\* update or by an exception escaping the graph, the final state of the run
\* holds the resume analysis and the screening score the analysis produced.
C20_FailureKeepsAnalysis ==
    \A r \in Runs :
        (pc[r] = "END" /\ hist[r].score # << >> /\ st[r].error # None)
        => /\ st[r].resume_analysis # << >>
           /\ st[r].screening_score # << >>
           /\ st[r].screening_score[1].score = hist[r].score[1]

C22_RepeatedRunSameDecision ==
    (pc[1] = "END" /\ pc[2] = "END") =>
        /\ st[1].screening_score # << >>
        /\ st[2].screening_score # << >>
        /\ st[1].screening_score[1].classification
               = st[2].screening_score[1].classification
        /\ st[1].decision = st[2].decision

\* C23: the slot a run commits is the earliest pair, by date and then by
\* position in the preferred times, that is at least 2 days after now, on a
\* weekday, not a holiday, within business hours and not booked in the store
\* the run generated its slots against.
C23_CommitsEarliestValidSlot ==
    \A r \in Runs :
        hist[r].committed # << >> =>
            LET b == hist[r].committed[1]
                bookings == hist[r].store_at_generation
                Valid(d, i) ==
                    /\ (env.now_weekday + d) % 7 < 5
                    /\ d \notin env.holidays
                    /\ is_within_business_hours(env.times[i])
                    /\ \A k \in 1..Len(bookings) :
                           ~(/\ bookings[k].date.day = d
                             /\ bookings[k].time = env.times[i])
            IN  \E d \in START_DAYS_AHEAD..Horizon, i \in 1..Len(env.times) :
                    /\ b.date.day = d
                    /\ b.date.weekday = (env.now_weekday + d) % 7
                    /\ b.time = env.times[i]
                    /\ Valid(d, i)
                    /\ \A d2 \in START_DAYS_AHEAD..d, i2 \in 1..Len(env.times) :
                           (d2 < d \/ i2 < i) => ~Valid(d2, i2)

\* C23 witness: a run for a candidate scored 100, started on a Thursday with
\* a holiday on the Monday after and one slot booked already, has committed
\* the second valid time of the Tuesday.
C23_Witness ==
    \E r \in Runs :
        /\ hist[r].score = << SCORE_MAX >>
        /\ env.now_weekday = 3
        /\ hist[r].store_at_generation # << >>
        /\ hist[r].committed # << >>
        /\ hist[r].committed[1].date.day = 5
        /\ hist[r].committed[1].time = T(5, 0, TRUE)

\* C24: within one run the stages execute in the order analyze, route,
\* coordinate, finalize, each at most once and exactly one of the two
\* coordination branches, and current_step only moves forward along start,
\* analyzed, coordinated, completed, or to failed.
C24_StagesInOrder ==
    /\ [](\A r \in Runs :
            LET Stage(op) ==
                    CASE op = "process" -> 1
                      [] op = "route_after_screening" -> 2
                      [] op \in { "process_qualified", "process_rejected" } -> 3
                      [] op = "finalize" -> 4
                      [] OTHER -> 0
            IN  /\ \A i, j \in 1..Len(trace[r]) :
                       (i < j /\ Stage(trace[r][i]) > 0
                        /\ Stage(trace[r][j]) > 0)
                       => Stage(trace[r][i]) < Stage(trace[r][j])
                /\ InTrace(r, "finalize") =>
                       (InTrace(r, "process_qualified")
                        \/ InTrace(r, "process_rejected"))
                /\ st[r].current_step \in
                       { "start", "analyzed", "coordinated", "completed",
                         "failed" })
    /\ [][\A r \in Runs :
            LET Rank(step) ==
                    CASE step = "start" -> 0
                      [] step = "analyzed" -> 1
                      [] step = "coordinated" -> 2
                      [] step = "completed" -> 3
                      [] step = "failed" -> 4
                      [] OTHER -> -1
            IN  pc'[r] # "idle" =>
                    /\ Rank(st'[r].current_step) >= Rank(st[r].current_step)
                    /\ Rank(st'[r].current_step) >= 0]_vars

\* C25: a capability call that never returns cannot block a run for ever:
\* every run that has started, or is blocked in a capability call,
\* eventually reaches its terminal state.
C25_RunsReachTerminalState ==
    (\E r \in Runs : pc[r] \in { "analyze_resume", "blocked" })
        ~> (\E r \in Runs : pc[r] = "END")

IsPrefix(before, after) ==
    /\ Len(before) <= Len(after)
    /\ \A i \in 1..Len(before) : after[i] = before[i]

InStore(b) == \E i \in 1..Len(store) : store[i] = b

\* C26: a pipeline run never removes or alters a booking that was in the
\* store when it started, also when the read of save_booking fails: from the
\* start of a run until it has returned, the store as it was at the start of
\* the run is a prefix of the store.
C26_RunKeepsEarlierBookings ==
    \A r \in Runs :
        pc[r] # "idle" => IsPrefix(hist[r].store_at_start, store)

\* C27: when a run has ended (no exception having escaped the graph), a
\* booking it committed is in the store only if the run ended with decision
\* 'accept' and an invitation for that slot; a run whose invitation failed
\* leaves no booking behind.
C27_BookingOnlyWithInvitation ==
    \A r \in Runs :
        (pc[r] = "END" /\ ~InTrace(r, "raise")) =>
            \A i \in 1..Len(hist[r].committed) :
                LET b == hist[r].committed[i] IN
                InStore(b) =>
                    /\ st[r].decision = "accept"
                    /\ st[r].interview_coordination # << >>
                    /\ st[r].interview_coordination[1].email_template.time_slot
                           = << SlotsText(b) >>

\* C28: no committed booking is lost under concurrency: when save_booking
\* has returned True in two runs for different slots, the store holds both
\* bookings and every booking that was there when either run started.
C28_ConcurrentSavesAllKept ==
    \A r1, r2 \in Runs :
        (/\ r1 # r2
         /\ loc[r1].saved = "True" /\ loc[r2].saved = "True"
         /\ hist[r1].committed # << >> /\ hist[r2].committed # << >>
         /\ Pair(hist[r1].committed[1]) # Pair(hist[r2].committed[1]))
        => /\ InStore(hist[r1].committed[1])
           /\ InStore(hist[r2].committed[1])
           /\ \A i \in 1..Len(hist[r1].store_at_start) :
                  InStore(hist[r1].store_at_start[i])
           /\ \A i \in 1..Len(hist[r2].store_at_start) :
                  InStore(hist[r2].store_at_start[i])

\* C29: under non-overlapping pipeline runs and booking-manager cancel and
\* clear operations, from an empty store and with every store read and write
\* succeeding, no two bookings of the store share a (date, time) pair.
C29_SequentialStoreHasNoDuplicates ==
    \A i, j \in 1..Len(store) :
        i # j => Pair(store[i]) # Pair(store[j])

\* the booking of the first run was cancelled after the second run had
\* booked, and the third run booked the freed slot again
C29_Witness ==
    /\ probe.op = "cancel_booking"
    /\ probe.result = "cancelled"
    /\ Len(store) = 2
    /\ store[1].booked_at = 2
    /\ store[2].booked_at = 3
    /\ Pair(store[2]) =
           Pair(generate_interview_slots(env.times, << >>, env.holidays,
                                         env.now_weekday)[1])

\* C30: the error of the final state is the error of the first stage that
\* failed: from the failure of the analyze stage on, as long as no exception
\* escapes the graph, the error of the run is the 'Resume analysis failed'
\* message.
C30_FirstErrorIsKept ==
    \A r \in Runs :
        (AnalysisFailed(r) /\ ~InTrace(r, "raise")) =>
            st[r].error = "Resume analysis failed"

\* C31: in every final state returned by run(), decision 'accept' implies a
\* screening score of at least 70, a coordination output with a non-empty
\* slot list and an invitation email, and no error; decision 'reject'
\* implies a coordination output with an empty slot list; and a run whose
\* coordination stage failed has no decision.
C31_FinalDecisionIsConsistent ==
    \A r \in Runs :
        pc[r] = "END" =>
            /\ st[r].decision = "accept" =>
                   /\ st[r].screening_score # << >>
                   /\ st[r].screening_score[1].score
                          >= QUALIFIED_CANDIDATE_THRESHOLD
                   /\ st[r].interview_coordination # << >>
                   /\ st[r].interview_coordination[1].interview_slots # << >>
                   /\ st[r].interview_coordination[1].email_template.kind
                          = "invitation"
                   /\ st[r].error = None
            /\ st[r].decision = "reject" =>
                   /\ st[r].interview_coordination # << >>
                   /\ st[r].interview_coordination[1].interview_slots = << >>
            /\ st[r].error \in { "Interview coordination failed",
                                 "Rejection processing failed" } =>
                   st[r].decision = None

\* a run that ended with decision 'accept' on the threshold score
C31_Witness ==
    \E r \in Runs :
        /\ pc[r] = "END"
        /\ st[r].decision = "accept"
        /\ st[r].screening_score[1].score = QUALIFIED_CANDIDATE_THRESHOLD

\* C32: every slot generate_interview_slots returns has a date at least 2
\* calendar days after the current date, whatever the store holds.
C32_SlotsAtLeastTwoDaysAhead ==
    probe.op = "generate_interview_slots" =>
        \A i \in 1..Len(probe.slots) : probe.slots[i].date.day >= 2

\* the first slot returned is exactly 2 days ahead although the store holds
\* bookings, and the last one is on a later day
C32_Witness ==
    /\ probe.op = "generate_interview_slots"
    /\ Len(probe.slots) = NUM_INTERVIEW_SLOTS
    /\ store # << >>
    /\ probe.slots[1].date.day = 2
    /\ probe.slots[NUM_INTERVIEW_SLOTS].date.day > 2

\* position of a time in the preferred-times list
Pos(times, t) == CHOOSE i \in 1..Len(times) : times[i] = t

\* slot a comes before slot b in (date, position of the time) order
SlotBefore(times, a, b) ==
    \/ a.date.day < b.date.day
    \/ a.date.day = b.date.day /\ Pos(times, a.time) < Pos(times, b.time)

\* C33: generate_interview_slots tries every valid time of a date, in
\* preferred-times order, before it advances to the next date: the date of
\* the loop changes only when time_index is back at the first valid time,
\* the slots collected so far come before the pair the loop stands at, and
\* the list collected and returned is strictly increasing in (date,
\* position of the time in the preferred list), so no (date, time) is in it
\* twice.
C33_SlotsInDateThenTimeOrder ==
    /\ [](probe.op \in { "while", "generate_interview_slots" } =>
            LET slots == IF probe.op = "while" THEN probe.output[1].slots
                         ELSE probe.slots
            IN  /\ \A i, j \in 1..Len(slots) :
                       i < j => SlotBefore(env.times, slots[i], slots[j])
                /\ \A i, j \in 1..Len(slots) :
                       i # j => Pair(slots[i]) # Pair(slots[j]))
    /\ [][(probe.op = "while" /\ probe'.op = "while") =>
            LET s == probe.output[1]
                n == probe'.output[1]
                valid_times == probe.input[1]
            IN  /\ SkipWeekend(env.now_weekday, n.slot_date)
                       # SkipWeekend(env.now_weekday, s.slot_date)
                   => n.time_index % Len(valid_times) = 0
                /\ n.time_index \in { s.time_index, s.time_index + 1 }
                /\ Len(n.slots) > Len(s.slots) =>
                       /\ n.slots[Len(n.slots)].time
                              = valid_times[(s.time_index
                                             % Len(valid_times)) + 1]
                       /\ n.slots[Len(n.slots)].date.day
                              = SkipWeekend(env.now_weekday, s.slot_date)]_vars

\* three slots returned, the first two on one date and the third on a later
\* date
C33_Witness ==
    /\ probe.op = "generate_interview_slots"
    /\ Len(probe.slots) = NUM_INTERVIEW_SLOTS
    /\ probe.slots[1].date.day = probe.slots[2].date.day
    /\ probe.slots[2].date.day < probe.slots[3].date.day

\* the time parses and its minutes since midnight are within business hours
InBusinessMinutes(t) ==
    /\ ParseTime(t) # << >>
    /\ ParseTime(t)[1].hour * 60 + ParseTime(t)[1].minute
           \in (600..720) \cup (840..1020)

\* no configured preferred time is within business hours
NoValidTime == \A i \in 1..Len(env.times) : ~InBusinessMinutes(env.times[i])

\* C34: when no preferred time passes the business-hours check,
\* generate_interview_slots returns the empty list without entering its
\* search loop and leaves the booking store as it is; no slot it ever
\* returns has a time outside business hours.
C34_NoValidTimeReturnsEmpty ==
    /\ []((NoValidTime /\ probe.op # None) =>
             /\ probe.op = "generate_interview_slots"
             /\ probe.slots = << >>)
    /\ [](probe.op = "generate_interview_slots" =>
             \A i \in 1..Len(probe.slots) :
                 InBusinessMinutes(probe.slots[i].time))
    /\ [][NoValidTime =>
             /\ probe'.op # "while"
             /\ store' = store
             /\ file' = file]_vars

\* the allocator has returned the empty list for a preferred-times list with
\* no valid time, and the store holds bookings
C34_Witness ==
    /\ NoValidTime
    /\ probe.op = "generate_interview_slots"
    /\ probe.slots = << >>
    /\ store # << >>

\* C35: the finalize step changes only current_step, to 'completed':
\* decision, error, resume_analysis, screening_score and the coordination
\* output of the final state are those present when finalize started; and
\* once the analyze stage has set resume_analysis and screening_score, no
\* later stage of the graph (route, coordinate, finalize) changes them.
C35_FinalizeChangesOnlyStep ==
    [][\A r \in Runs :
          /\ (pc[r] = "finalize" /\ st'[r].current_step # "failed") =>
                 /\ pc'[r] \in { "finalize", "END" }
                 /\ pc'[r] = "END" =>
                        st'[r] = [st[r] EXCEPT !.current_step = "completed"]
                 /\ pc'[r] = "finalize" => st'[r] = st[r]
          /\ (/\ pc[r] \in { "route", "coordinate_accept", "coordinate_reject",
                             "save_booking", "save_booking_write",
                             "generate_invitation_email", "finalize" }
              /\ st'[r].current_step # "failed") =>
                 /\ st'[r].resume_analysis = st[r].resume_analysis
                 /\ st'[r].screening_score = st[r].screening_score]_vars

\* finalize has run on a state holding the analysis, the score and the error
\* of a failed coordination stage, and the final state still holds them
C35_Witness ==
    \E r \in Runs :
        /\ pc[r] = "END"
        /\ InTrace(r, "finalize")
        /\ st[r].current_step = "completed"
        /\ st[r].error = "Interview coordination failed"
        /\ st[r].resume_analysis # << >>
        /\ st[r].screening_score # << >>
        /\ st[r].decision = None

\* C36: cancelling a booking by its number removes exactly that record and
\* leaves the other records and their order as they were, after which
\* is_slot_available reports its (date, time) available again; a number
\* outside the list leaves the store unchanged; and no pipeline run calls
\* cancel or clear.
C36_CancelRemovesExactlyOne ==
    /\ [][(pc' = pc /\ probe'.op = "cancel_booking"
           /\ probe'.result = "cancelled") =>
             LET k == probe'.input[1] IN
             /\ k \in 1..Len(store)
             /\ Len(store') = Len(store) - 1
             /\ \A i \in 1..Len(store') :
                    store'[i] = IF i < k THEN store[i] ELSE store[i + 1]
             /\ is_slot_available(store', store[k].date, store[k].time)]_vars
    /\ [][(pc' = pc /\ probe'.op = "cancel_booking"
           /\ probe'.result = "invalid") =>
             (store' = store /\ file' = file)]_vars
    /\ [](\A r \in Runs : /\ ~InTrace(r, "cancel_booking")
                          /\ ~InTrace(r, "clear_all_bookings"))

\* C37: generate_interview_slots only reads the booking store: a call leaves
\* the store as it is, a call that follows another call with no booking in
\* between returns the same slots, and the store changes only when
\* process_qualified books a slot.
C37_AllocatorOnlyReadsStore ==
    /\ [][probe'.op = "generate_interview_slots" =>
             (store' = store /\ file' = file)]_vars
    /\ [][store' # store => probe'.op = "save_booking"]_vars
    /\ []((probe.op = "generate_interview_slots" /\ probe.input[1] >= 2) =>
             probe.output = << probe.slots >>)

\* the allocator was called MaxCalls times in a row on a store holding two
\* bookings and returned three slots each time
C37_Witness ==
    /\ probe.op = "generate_interview_slots"
    /\ probe.input = << MaxCalls >>
    /\ Len(probe.slots) = NUM_INTERVIEW_SLOTS
    /\ Len(store) = 2

\* a 12-hour time string "hh:mm AM|PM" is well formed
WellFormed(t) == t.hh \in 1..12 /\ t.mm \in 0..59

\* minutes since midnight of a well-formed 12-hour time
MinutesSinceMidnight(t) ==
    (IF t.hh = 12 THEN 0 ELSE t.hh * 60) + t.mm + (IF t.pm THEN 720 ELSE 0)

\* C38: is_within_business_hours returns true for a 12-hour time string iff
\* its minutes since midnight are in [600, 720] or in [840, 1020], so
\* 10:00 AM, 12:00 PM, 2:00 PM and 5:00 PM are valid and 9:59 AM, 12:01 PM,
\* 1:59 PM and 5:01 PM are not; for a string that does not parse it returns
\* false and does not raise.
C38_BusinessHoursClosedIntervals ==
    probe.op = "is_within_business_hours" =>
        LET t == probe.input[1] IN
        /\ probe.result \in { "True", "False" }
        /\ probe.result = "True"
               <=> /\ WellFormed(t)
                   /\ MinutesSinceMidnight(t) \in (600..720) \cup (840..1020)
        /\ t \in { T(10, 0, FALSE), T(12, 0, TRUE), T(2, 0, TRUE),
                   T(5, 0, TRUE) } => probe.result = "True"
        /\ t \in { T(9, 59, FALSE), T(12, 1, TRUE), T(1, 59, TRUE),
                   T(5, 1, TRUE) } => probe.result = "False"
        /\ ~WellFormed(t) => probe.result = "False"

\* 12:00 PM, the closed end of the morning interval, is reported valid
C38_Witness ==
    /\ probe.op = "is_within_business_hours"
    /\ probe.input = << T(12, 0, TRUE) >>
    /\ probe.result = "True"

\* C39: when the state carries no screening score, route_after_screening
\* returns the reject path and should_require_human_review returns true; a
\* run whose analysis produced no score is routed to the reject path, never
\* enters the accept path, never calls the allocator or save_booking and
\* leaves the store as it was.
C39_NoScoreGoesToReject ==
    \A r \in Runs :
        AnalysisFailed(r) =>
            /\ st[r].screening_score = << >>
            /\ route_after_screening(st[r].screening_score)
                   = "coordinate_reject"
            /\ should_require_human_review(st[r].screening_score)
            /\ hist[r].route \in { None, "coordinate_reject" }
            /\ InTrace(r, "route_after_screening") =>
                   hist[r].route = "coordinate_reject"
            /\ ~InTrace(r, "process_qualified")
            /\ ~InTrace(r, "generate_interview_slots")
            /\ ~InTrace(r, "save_booking")
            /\ hist[r].committed = << >>
            /\ store = hist[r].store_at_start

\* a run with no score has gone through the reject path to its end on a
\* store that holds a booking of an earlier run
C39_Witness ==
    \E r \in Runs :
        /\ AnalysisFailed(r)
        /\ pc[r] = "END"
        /\ hist[r].route = "coordinate_reject"
        /\ InTrace(r, "process_rejected")
        /\ store # << >>

====
